---- MODULE Spec2Model ----
(***************************************************************************)
(* Board engine of rust-mines (src/game.rs): board generation, adjacency   *)
(* counts, cursor movement, mark toggling, click / flood reveal and the    *)
(* win check, driven by the command loop of src/main.rs.                   *)
(***************************************************************************)
EXTENDS Integers, Sequences, FiniteSets, TLC

VARIABLES width, height, tiles, selected, \* the fields of Game
          status,      \* "running", or "panicked" after an index out of bounds
          cmd,         \* the last command and its target
          out,         \* the messages end_game printed during the last command
          printed,     \* the messages printed so far (kept by SpecLog)
          ret          \* the last result of Tile::neighbors (SpecNb)

vars == <<width, height, tiles, selected, status, cmd, out,
          printed, ret>>

\* ---------------------------------------------------------------- bounds
\* Boards of the command model have at most MaxCells tiles, at most
\* MaxMines of them mines, and the player keeps at most MaxMarks marks.
MaxCells == 5
MaxMines == 1
MaxMarks == 1
\* Boards on which the history of printed messages is kept.
LogMaxCells == 4
\* Degenerate boards: one dimension 0, the other up to ZeroMaxDim.
ZeroMaxDim == 8
\* Grids on which Tile::neighbors is evaluated tile by tile.
NbMaxW == 4
NbMaxH == 4

\* ----------------------------------------------------------- data types
TileVisibility == {"Visible", "Marked", "Hidden"}

TileType == {"Safe", "Mine"}

LostMsg == "You exploded >_<"

WonMsg == "Game won ^-^"

\* Faulty variant: the Right Down push is missing.
neighbors_NoRightDown(tile, w, h) ==
    (IF tile.x > 0 THEN << <<tile.x - 1, tile.y>> >> ELSE <<>>) \o
    (IF tile.y > 0 THEN << <<tile.x, tile.y - 1>> >> ELSE <<>>) \o
    (IF tile.x < w - 1 THEN << <<tile.x + 1, tile.y>> >> ELSE <<>>) \o
    (IF tile.y < h - 1 THEN << <<tile.x, tile.y + 1>> >> ELSE <<>>) \o
    (IF tile.x > 0 /\ tile.y > 0 THEN << <<tile.x - 1, tile.y - 1>> >> ELSE <<>>) \o
    (IF tile.x > 0 /\ tile.y < h - 1 THEN << <<tile.x - 1, tile.y + 1>> >> ELSE <<>>) \o
    (IF tile.x < w - 1 /\ tile.y > 0 THEN << <<tile.x + 1, tile.y - 1>> >> ELSE <<>>)

\* Faulty variant: the Left Up line pushes the Left coordinate again.
neighbors_LeftTwice(tile, w, h) ==
    (IF tile.x > 0 THEN << <<tile.x - 1, tile.y>> >> ELSE <<>>) \o
    (IF tile.y > 0 THEN << <<tile.x, tile.y - 1>> >> ELSE <<>>) \o
    (IF tile.x < w - 1 THEN << <<tile.x + 1, tile.y>> >> ELSE <<>>) \o
    (IF tile.y < h - 1 THEN << <<tile.x, tile.y + 1>> >> ELSE <<>>) \o
    (IF tile.x > 0 /\ tile.y > 0 THEN << <<tile.x - 1, tile.y>> >> ELSE <<>>) \o
    (IF tile.x > 0 /\ tile.y < h - 1 THEN << <<tile.x - 1, tile.y + 1>> >> ELSE <<>>) \o
    (IF tile.x < w - 1 /\ tile.y > 0 THEN << <<tile.x + 1, tile.y - 1>> >> ELSE <<>>) \o
    (IF tile.x < w - 1 /\ tile.y < h - 1 THEN << <<tile.x + 1, tile.y + 1>> >> ELSE <<>>)

\* ------------------------------------------------------ Tile::neighbors
\* The Vec is built by eight guarded pushes, in this order.
neighbors(tile, w, h) ==
    (IF tile.x > 0 THEN << <<tile.x - 1, tile.y>> >> ELSE <<>>) \o
    (IF tile.y > 0 THEN << <<tile.x, tile.y - 1>> >> ELSE <<>>) \o
    (IF tile.x < w - 1 THEN << <<tile.x + 1, tile.y>> >> ELSE <<>>) \o
    (IF tile.y < h - 1 THEN << <<tile.x, tile.y + 1>> >> ELSE <<>>) \o
    (IF tile.x > 0 /\ tile.y > 0 THEN << <<tile.x - 1, tile.y - 1>> >> ELSE <<>>) \o
    (IF tile.x > 0 /\ tile.y < h - 1 THEN << <<tile.x - 1, tile.y + 1>> >> ELSE <<>>) \o
    (IF tile.x < w - 1 /\ tile.y > 0 THEN << <<tile.x + 1, tile.y - 1>> >> ELSE <<>>) \o
    (IF tile.x < w - 1 /\ tile.y < h - 1 THEN << <<tile.x + 1, tile.y + 1>> >> ELSE <<>>)

\* ------------------------------------------------------------ Game::new
\* Faulty variant: only the neighbours in the same row or column count.
new_OrthogonalOnly(w, h, rng) ==
    LET n == h * w
        tiles0 == [i \in 0..(n - 1) |->
                     [x |-> i % w, y |-> i \div w, tile_type |-> rng[i],
                      tile_visibility |-> "Hidden", mine_count |-> 0]]
        nb(i) == neighbors(tiles0[i], w, h)
        mine_count(i) ==
            Cardinality({k \in 1..Len(nb(i)) :
                /\ nb(i)[k][1] = tiles0[i].x \/ nb(i)[k][2] = tiles0[i].y
                /\ tiles0[nb(i)[k][1] + nb(i)[k][2] * w].tile_type = "Mine"})
    IN [width |-> w, height |-> h,
        tiles |-> [i \in 0..(n - 1) |->
                     [tiles0[i] EXCEPT !.mine_count = mine_count(i)]],
        selected |-> <<0, 0>>]

\* rng[i] is the TileType drawn for tile i.
new(w, h, rng) ==
    LET n == h * w
        tiles0 == [i \in 0..(n - 1) |->
                     [x |-> i % w, y |-> i \div w, tile_type |-> rng[i],
                      tile_visibility |-> "Hidden", mine_count |-> 0]]
        nb(i) == neighbors(tiles0[i], w, h)
        mine_count(i) ==
            Cardinality({k \in 1..Len(nb(i)) :
                tiles0[nb(i)[k][1] + nb(i)[k][2] * w].tile_type = "Mine"})
    IN [width |-> w, height |-> h,
        tiles |-> [i \in 0..(n - 1) |->
                     [tiles0[i] EXCEPT !.mine_count = mine_count(i)]],
        selected |-> <<0, 0>>]

\* ------------------------------------------------------- Game::end_game
end_game(message) == <<message>>

\* ------------------------------------------------- Game::check_game_won
\* Faulty variant: any Hidden tile, Mine or Safe, blocks the win.
check_game_won_AnyHidden(self) ==
    IF ~ \E i \in DOMAIN self.tiles :
            self.tiles[i].tile_visibility = "Hidden"
    THEN end_game(WonMsg)
    ELSE <<>>

check_game_won(self) ==
    IF ~ \E i \in DOMAIN self.tiles :
            /\ self.tiles[i].tile_visibility = "Hidden"
            /\ self.tiles[i].tile_type = "Safe"
    THEN end_game(WonMsg)
    ELSE <<>>

\* ---------------------------------------------------- Game::toggle_mark
\* Faulty variant: every tile that is not Hidden is turned Hidden.
toggle_mark_ElseHidden(self) ==
    LET x == self.selected[1]
        y == self.selected[2]
        i == x + y * self.width
        v == self.tiles[i].tile_visibility
        nv == CASE v = "Hidden" -> "Marked"
                [] OTHER -> "Hidden"
        s1 == [self EXCEPT !.tiles[i].tile_visibility = nv]
    IN [self |-> s1, out |-> check_game_won(s1), panic |-> FALSE]

\* Faulty variant: a Marked tile is turned Visible instead of Hidden.
toggle_mark_Cycle(self) ==
    LET x == self.selected[1]
        y == self.selected[2]
        i == x + y * self.width
        v == self.tiles[i].tile_visibility
        nv == CASE v = "Hidden" -> "Marked"
                [] v = "Marked" -> "Visible"
                [] OTHER -> v
        s1 == [self EXCEPT !.tiles[i].tile_visibility = nv]
    IN [self |-> s1, out |-> check_game_won(s1), panic |-> FALSE]

\* Faulty variant: check_game_won is not called.
toggle_mark_NoCheck(self) ==
    LET x == self.selected[1]
        y == self.selected[2]
        i == x + y * self.width
        v == self.tiles[i].tile_visibility
        nv == CASE v = "Hidden" -> "Marked"
                [] v = "Marked" -> "Hidden"
                [] OTHER -> v
        s1 == [self EXCEPT !.tiles[i].tile_visibility = nv]
    IN [self |-> s1, out |-> <<>>, panic |-> FALSE]

\* self.tiles[i] panics when i is not an index of the Vec.
toggle_mark(self) ==
    LET x == self.selected[1]
        y == self.selected[2]
        i == x + y * self.width
        v == self.tiles[i].tile_visibility
        nv == CASE v = "Hidden" -> "Marked"
                [] v = "Marked" -> "Hidden"
                [] OTHER -> v
        s1 == [self EXCEPT !.tiles[i].tile_visibility = nv]
    IN IF i \notin DOMAIN self.tiles
       THEN [self |-> self, out |-> <<>>, panic |-> TRUE]
       ELSE [self |-> s1, out |-> check_game_won(s1), panic |-> FALSE]

\* --------------------------------------------------- Game::flood_reveal
RECURSIVE flood_reveal(_, _, _), flood_loop(_, _, _)

\* Faulty variant: a Marked neighbour is entered like a Hidden one.
flood_loop_IntoMarked(self, nbs, k) ==
    IF k > Len(nbs) THEN self
    ELSE LET x == nbs[k][1]
             y == nbs[k][2]
             neighbor_tile == self.tiles[x + y * self.width]
         IN IF /\ neighbor_tile.tile_visibility # "Visible"
               /\ neighbor_tile.tile_type = "Safe"
            THEN flood_loop(flood_reveal(self, x, y), nbs, k + 1)
            ELSE flood_loop(self, nbs, k + 1)

\* Faulty variant: the loop returns after the first neighbour it enters.
flood_loop_FirstOnly(self, nbs, k) ==
    IF k > Len(nbs) THEN self
    ELSE LET x == nbs[k][1]
             y == nbs[k][2]
             neighbor_tile == self.tiles[x + y * self.width]
         IN IF /\ neighbor_tile.tile_visibility = "Hidden"
               /\ neighbor_tile.tile_type = "Safe"
            THEN flood_reveal(self, x, y)
            ELSE flood_loop(self, nbs, k + 1)

\* The for loop over the neighbours Vec, from position k on.
flood_loop(self, nbs, k) ==
    IF k > Len(nbs) THEN self
    ELSE LET x == nbs[k][1]
             y == nbs[k][2]
             neighbor_tile == self.tiles[x + y * self.width]
         IN IF /\ neighbor_tile.tile_visibility = "Hidden"
               /\ neighbor_tile.tile_type = "Safe"
            THEN flood_loop(flood_reveal(self, x, y), nbs, k + 1)
            ELSE flood_loop(self, nbs, k + 1)

\* Faulty variant: no return at a tile with mine_count # 0.
flood_reveal_NoStop(self, x, y) ==
    LET i == x + y * self.width
        s1 == [self EXCEPT !.tiles[i].tile_visibility = "Visible"]
        tile == s1.tiles[i]
    IN flood_loop(s1, neighbors(tile, self.width, self.height), 1)

\* Faulty variant: the loop tests each neighbour in a copy of the tiles
\* taken before the loop, not in the tiles as they are now.
RECURSIVE flood_loop_Stale(_, _, _, _)
flood_loop_Stale(snapshot, self, nbs, k) ==
    IF k > Len(nbs) THEN self
    ELSE LET x == nbs[k][1]
             y == nbs[k][2]
             neighbor_tile == snapshot.tiles[x + y * self.width]
         IN IF /\ neighbor_tile.tile_visibility = "Hidden"
               /\ neighbor_tile.tile_type = "Safe"
            THEN flood_loop_Stale(snapshot, flood_reveal(self, x, y),
                                  nbs, k + 1)
            ELSE flood_loop_Stale(snapshot, self, nbs, k + 1)

flood_reveal_StaleGuard(self, x, y) ==
    LET i == x + y * self.width
        s1 == [self EXCEPT
                 !.tiles[i].tile_visibility = "Visible",
                 !.calls = Append(@, [index |-> i,
                                      was |-> self.tiles[i].tile_visibility])]
        tile == s1.tiles[i]
    IN IF tile.mine_count # 0 THEN s1
       ELSE flood_loop_Stale(s1, s1,
                             neighbors(tile, self.width, self.height), 1)

\* Faulty variant: the cursor is left on the tile entered.
flood_reveal_MovesCursor(self, x, y) ==
    LET i == x + y * self.width
        s1 == [self EXCEPT
                 !.tiles[i].tile_visibility = "Visible",
                 !.selected = <<x, y>>,
                 !.calls = Append(@, [index |-> i,
                                      was |-> self.tiles[i].tile_visibility])]
        tile == s1.tiles[i]
    IN IF tile.mine_count # 0 THEN s1
       ELSE flood_loop(s1, neighbors(tile, self.width, self.height), 1)

\* Faulty variant: the test of mine_count is inverted.
flood_reveal_Inverted(self, x, y) ==
    LET i == x + y * self.width
        s1 == [self EXCEPT
                 !.tiles[i].tile_visibility = "Visible",
                 !.calls = Append(@, [index |-> i,
                                      was |-> self.tiles[i].tile_visibility])]
        tile == s1.tiles[i]
    IN IF tile.mine_count = 0 THEN s1
       ELSE flood_loop(s1, neighbors(tile, self.width, self.height), 1)

\* self.calls lists the calls of flood_reveal made during the command:
\* the index entered and the visibility the tile had on entry.
flood_reveal(self, x, y) ==
    LET i == x + y * self.width
        s1 == [self EXCEPT
                 !.tiles[i].tile_visibility = "Visible",
                 !.calls = Append(@, [index |-> i,
                                      was |-> self.tiles[i].tile_visibility])]
        tile == s1.tiles[i]
    IN IF tile.mine_count # 0 THEN s1
       ELSE flood_loop(s1, neighbors(tile, self.width, self.height), 1)

\* ----------------------------------------------------- Game::click_tile
\* Faulty variant: flood_reveal is started for a Mine as well.
click_tile_FloodMine(self) ==
    LET x == self.selected[1]
        y == self.selected[2]
        i == x + y * self.width
        tile == self.tiles[i]
    IN IF tile.tile_visibility = "Marked"
       THEN [self |-> self, out |-> <<>>, panic |-> FALSE]
       ELSE LET s1 == [self EXCEPT !.tiles[i].tile_visibility = "Visible"]
                s2 == flood_reveal(s1, x, y)
                o1 == IF tile.tile_type = "Mine" THEN end_game(LostMsg)
                      ELSE <<>>
            IN [self |-> s2, out |-> o1 \o check_game_won(s2),
                panic |-> FALSE]

\* Faulty variant: no early return for a Marked tile.
click_tile_NoMarkGuard(self) ==
    LET x == self.selected[1]
        y == self.selected[2]
        i == x + y * self.width
        tile == self.tiles[i]
        s1 == [self EXCEPT !.tiles[i].tile_visibility = "Visible"]
        s2 == IF tile.tile_type = "Mine" THEN s1
              ELSE flood_reveal(s1, x, y)
        o1 == IF tile.tile_type = "Mine" THEN end_game(LostMsg)
              ELSE <<>>
    IN [self |-> s2, out |-> o1 \o check_game_won(s2), panic |-> FALSE]

\* Faulty variant: the Mine arm does not call end_game.
click_tile_SilentMine(self) ==
    LET x == self.selected[1]
        y == self.selected[2]
        i == x + y * self.width
        tile == self.tiles[i]
    IN IF tile.tile_visibility = "Marked"
       THEN [self |-> self, out |-> <<>>, panic |-> FALSE]
       ELSE LET s1 == [self EXCEPT !.tiles[i].tile_visibility = "Visible"]
                s2 == IF tile.tile_type = "Mine" THEN s1
                      ELSE flood_reveal(s1, x, y)
            IN [self |-> s2, out |-> check_game_won(s2), panic |-> FALSE]

\* self.tiles[i] panics when i is not an index of the Vec.
click_tile(self) ==
    LET x == self.selected[1]
        y == self.selected[2]
        i == x + y * self.width
        tile == self.tiles[i]
    IN IF i \notin DOMAIN self.tiles
       THEN [self |-> self, out |-> <<>>, panic |-> TRUE]
       ELSE
       IF tile.tile_visibility = "Marked"
       THEN [self |-> self, out |-> <<>>, panic |-> FALSE]
       ELSE LET s1 == [self EXCEPT !.tiles[i].tile_visibility = "Visible"]
                s2 == IF tile.tile_type = "Mine" THEN s1
                      ELSE flood_reveal(s1, x, y)
                o1 == IF tile.tile_type = "Mine" THEN end_game(LostMsg)
                      ELSE <<>>
            IN [self |-> s2, out |-> o1 \o check_game_won(s2),
                panic |-> FALSE]

\* --------------------------------------------------- Game::set_selected
\* Faulty variant: an out-of-range target is clamped to the nearest cell.
set_selected_Clamp(self, pos) ==
    LET cx == IF pos[1] < 0 THEN 0
              ELSE IF pos[1] >= self.width THEN self.width - 1 ELSE pos[1]
        cy == IF pos[2] < 0 THEN 0
              ELSE IF pos[2] >= self.height THEN self.height - 1 ELSE pos[2]
    IN [self EXCEPT !.selected = <<cx, cy>>]

\* Faulty variant: <= in place of < in the range test.
set_selected_OffByOne(self, pos) ==
    LET x == pos[1]
        y == pos[2]
    IN IF x >= 0 /\ x <= self.width /\ y >= 0 /\ y <= self.height
       THEN [self EXCEPT !.selected = <<x, y>>]
       ELSE self

set_selected(self, pos) ==
    LET x == pos[1]
        y == pos[2]
    IN IF x >= 0 /\ x < self.width /\ y >= 0 /\ y < self.height
       THEN [self EXCEPT !.selected = <<x, y>>]
       ELSE self

\* ------------------------------------------------------- state machine
Self == [width |-> width, height |-> height, tiles |-> tiles,
         selected |-> selected, calls |-> <<>>]

Layouts(w, h) ==
    {rng \in [0..(h * w - 1) -> TileType] :
        Cardinality({i \in 0..(h * w - 1) : rng[i] = "Mine"}) <= MaxMines}

NumMarked(ts) ==
    Cardinality({i \in DOMAIN ts : ts[i].tile_visibility = "Marked"})

Install(s) ==
    /\ width' = s.width
    /\ height' = s.height
    /\ tiles' = s.tiles
    /\ selected' = s.selected

\* main: Game::new, empty event history.
Init ==
    \E w \in 1..MaxCells, h \in 1..MaxCells :
      /\ w * h <= MaxCells
      /\ \E rng \in Layouts(w, h) :
        LET g == new(w, h, rng)
        IN /\ width = g.width
           /\ height = g.height
           /\ tiles = g.tiles
           /\ selected = g.selected
           /\ status = "running"
           /\ cmd = [op |-> "new", pos |-> <<>>]
           /\ out = <<>>
           /\ printed = {}
           /\ ret = <<>>

\* Targets of a Move signal: one step from the cursor (arrow keys and
\* h/j/k/l), or the cell under the pointer (any cell of the grid).
KeyTargets ==
    {<<selected[1] - 1, selected[2]>>, <<selected[1] + 1, selected[2]>>,
     <<selected[1], selected[2] - 1>>, <<selected[1], selected[2] + 1>>}

MouseTargets == (0..(width - 1)) \X (0..(height - 1))

\* SignalType::Move with Some(pos)
Move ==
    \E pos \in KeyTargets \cup MouseTargets :
        /\ status = "running"
        /\ Install(set_selected(Self, pos))
        /\ cmd' = [op |-> "set_selected", pos |-> pos]
        /\ out' = <<>>
        /\ UNCHANGED <<status, printed, ret>>

\* What a command that returned r leaves behind: the Game, the messages
\* it printed, and the process stopped if it panicked.
Record(op, r) ==
    /\ Install(r.self)
    /\ status' = IF r.panic THEN "panicked" ELSE "running"
    /\ cmd' = [op |-> op, pos |-> <<>>]
    /\ out' = r.out
    /\ UNCHANGED ret

\* SignalType::Click
Click ==
    LET r == click_tile(Self)
    IN /\ status = "running"
       /\ Record("click_tile", r)
       /\ UNCHANGED printed

\* SignalType::Mark
Mark ==
    LET r == toggle_mark(Self)
    IN /\ status = "running"
       /\ NumMarked(r.self.tiles) <= MaxMarks
       /\ Record("toggle_mark", r)
       /\ UNCHANGED printed

Next == Move \/ Click \/ Mark

Spec == Init /\ [][Next]_vars

\* ------------------------- the same commands, with the print history
LogInit ==
    \E w \in 1..LogMaxCells, h \in 1..LogMaxCells :
      /\ w * h <= LogMaxCells
      /\ \E rng \in Layouts(w, h) :
        LET g == new(w, h, rng)
        IN /\ width = g.width
           /\ height = g.height
           /\ tiles = g.tiles
           /\ selected = g.selected
           /\ status = "running"
           /\ cmd = [op |-> "new", pos |-> <<>>]
           /\ out = <<>>
           /\ printed = {}
           /\ ret = <<>>

\* println! in end_game: the messages of the command join those printed.
Logged(o) == printed' = printed \cup {o[k] : k \in 1..Len(o)}

ClickLog ==
    LET r == click_tile(Self)
    IN /\ status = "running"
       /\ Record("click_tile", r)
       /\ Logged(r.out)

MarkLog ==
    LET r == toggle_mark(Self)
    IN /\ status = "running"
       /\ NumMarked(r.self.tiles) <= MaxMarks
       /\ Record("toggle_mark", r)
       /\ Logged(r.out)

LogNext == Move \/ ClickLog \/ MarkLog

SpecLog == LogInit /\ [][LogNext]_vars

\* ------------------------------------- Tile::neighbors, tile by tile
AllSafe(w, h) == [i \in 0..(h * w - 1) |-> "Safe"]

NbInit ==
    \E w \in 1..NbMaxW, h \in 1..NbMaxH :
        LET g == new(w, h, AllSafe(w, h))
        IN /\ width = g.width
           /\ height = g.height
           /\ tiles = g.tiles
           /\ selected = g.selected
           /\ status = "running"
           /\ cmd = [op |-> "new", pos |-> <<>>]
           /\ out = <<>>
           /\ printed = {}
           /\ ret = <<>>

\* tile.neighbors(width, height) for one tile of the board.
NbCall ==
    \E i \in DOMAIN tiles :
        /\ ret' = [tile |-> tiles[i],
                   neighbors |-> neighbors(tiles[i], width, height)]
        /\ cmd' = [op |-> "neighbors", pos |-> <<>>]
        /\ UNCHANGED <<width, height, tiles, selected, status, out,
                       printed>>

NbNext == NbCall

SpecNb == NbInit /\ [][NbNext]_vars

\* --------------------------------- Game::new with a dimension of zero
\* (height*width) is 0: the Vec is empty and Game::new returns a Game.
ZeroSizes ==
    {d \in (0..ZeroMaxDim) \X (0..ZeroMaxDim) : d[1] = 0 \/ d[2] = 0}

ZeroInit ==
    \E d \in ZeroSizes :
        LET g == new(d[1], d[2], <<>>)
        IN /\ width = g.width
           /\ height = g.height
           /\ tiles = g.tiles
           /\ selected = g.selected
           /\ status = "running"
           /\ cmd = [op |-> "new", pos |-> <<>>]
           /\ out = <<>>
           /\ printed = {}
           /\ ret = <<>>

SpecZero == ZeroInit /\ [][Next]_vars

\* ============================================================== claims
\* Reference notions, written independently of the code's operators.
Index(x, y) == x + y * width

SelIndex == Index(selected[1], selected[2])

\* In-bounds 8-neighbourhood of tile i, as a set of indices.
Around(i) ==
    LET x == i % width
        y == i \div width
    IN {Index(x + d[1], y + d[2]) :
          d \in {e \in ((-1)..1) \X ((-1)..1) :
                   /\ e # <<0, 0>>
                   /\ x + e[1] >= 0 /\ x + e[1] < width
                   /\ y + e[2] >= 0 /\ y + e[2] < height}}

HiddenSafe(ts, i) ==
    ts[i].tile_visibility = "Hidden" /\ ts[i].tile_type = "Safe"

NoHiddenSafe(ts) == ~ \E i \in DOMAIN ts : HiddenSafe(ts, i)

Emitted(o, message) == \E k \in 1..Len(o) : o[k] = message

\* Every tile other than those in S is the same before and after the step.
SameOutside(S) == \A j \in DOMAIN tiles \ S : tiles'[j] = tiles[j]

RECURSIVE Closure(_, _)
Closure(ts, S) ==
    LET T == S \cup {n \in DOMAIN ts :
                       /\ HiddenSafe(ts, n)
                       /\ \E t \in S : ts[t].mine_count = 0 /\ n \in Around(t)}
    IN IF T = S THEN S ELSE Closure(ts, T)

\* C2: click_tile on a Hidden Safe selected tile s makes Visible exactly
\* the closure of {s} through zero-count tiles over Hidden Safe
\* neighbours; every other tile keeps its visibility.
C2_FloodRevealsClosure ==
    [][(cmd'.op = "click_tile" /\ HiddenSafe(tiles, SelIndex)) =>
         LET S == Closure(tiles, {SelIndex})
         IN \A i \in DOMAIN tiles :
              tiles'[i] = IF i \in S
                          THEN [tiles[i] EXCEPT !.tile_visibility = "Visible"]
                          ELSE tiles[i]]_vars

\* A flood that went two tiles deep and stopped at a Marked tile and at a
\* numbered tile.
C2_Witness ==
    /\ cmd.op = "click_tile"
    /\ \E i, j, k \in DOMAIN tiles :
          /\ i # j /\ j \in Around(i) /\ k \in Around(j) /\ k \notin Around(i)
          /\ k # i
          /\ tiles[i].tile_visibility = "Visible" /\ tiles[i].mine_count = 0
          /\ tiles[j].tile_visibility = "Visible" /\ tiles[j].mine_count = 0
          /\ tiles[k].tile_visibility = "Visible" /\ tiles[k].mine_count > 0
          /\ SelIndex = i
    /\ \E m \in DOMAIN tiles :
          /\ tiles[m].tile_visibility = "Marked" /\ tiles[m].tile_type = "Safe"
          /\ \E t \in Around(m) :
                tiles[t].tile_visibility = "Visible" /\ tiles[t].mine_count = 0

\* C3: a win signal is emitted only when the state after the command has
\* no Hidden Safe tile; and a click that reveals the last Hidden Safe tile
\* emits it, whatever Marked Safe or unrevealed Mine tiles remain, without
\* changing any Mine.
C3_WinOnlyWhenCleared ==
    [][/\ Emitted(out', WonMsg) => NoHiddenSafe(tiles')
       /\ (/\ cmd'.op = "click_tile"
           /\ HiddenSafe(tiles, SelIndex)
           /\ NoHiddenSafe(tiles'))
          => /\ Emitted(out', WonMsg)
             /\ \A i \in DOMAIN tiles :
                   tiles[i].tile_type = "Mine" => tiles'[i] = tiles[i]]_vars

\* Won by a click while a Safe tile is Marked and a Mine is still Hidden.
C3_Witness ==
    /\ cmd.op = "click_tile"
    /\ Emitted(out, WonMsg)
    /\ ~ Emitted(out, LostMsg)
    /\ \E i \in DOMAIN tiles :
          tiles[i].tile_type = "Safe" /\ tiles[i].tile_visibility = "Marked"
    /\ \E i \in DOMAIN tiles :
          tiles[i].tile_type = "Mine" /\ tiles[i].tile_visibility = "Hidden"
    /\ tiles[SelIndex].mine_count = 1

\* C4: click_tile on an unmarked Mine makes it Visible, emits the loss
\* signal and changes no other tile.
C4_MineClickLoses ==
    [][(/\ cmd'.op = "click_tile"
        /\ tiles[SelIndex].tile_type = "Mine"
        /\ tiles[SelIndex].tile_visibility # "Marked")
       => /\ tiles'[SelIndex].tile_visibility = "Visible"
          /\ Emitted(out', LostMsg)
          /\ SameOutside({SelIndex})]_vars

\* A Mine with mine_count 0 was clicked next to a Hidden Safe tile.
C4_Witness ==
    /\ cmd.op = "click_tile"
    /\ Emitted(out, LostMsg)
    /\ tiles[SelIndex].tile_type = "Mine"
    /\ tiles[SelIndex].tile_visibility = "Visible"
    /\ tiles[SelIndex].mine_count = 0
    /\ \E j \in Around(SelIndex) : HiddenSafe(tiles, j)

\* C5: click_tile on a Marked tile changes no tile and not the selection
\* and emits nothing.
C5_MarkedBlocksClick ==
    [][(cmd'.op = "click_tile" /\ tiles[SelIndex].tile_visibility = "Marked")
       => /\ tiles' = tiles
          /\ selected' = selected
          /\ out' = <<>>]_vars

\* A Marked Mine was clicked when no Hidden Safe tile was left.
C5_Witness ==
    /\ cmd.op = "click_tile"
    /\ tiles[SelIndex].tile_visibility = "Marked"
    /\ tiles[SelIndex].tile_type = "Mine"
    /\ NoHiddenSafe(tiles)
    /\ out = <<>>

\* Candidate positions of set_selected: every cell and one step past each
\* edge of the grid, on either axis or both.
Positions == ((-1)..width) \X ((-1)..height)

InGrid(pos) ==
    pos[1] >= 0 /\ pos[1] < width /\ pos[2] >= 0 /\ pos[2] < height

\* set_selected(pos) acting on game g: out of range changes nothing, in
\* range moves the cursor to exactly pos.
MovedAsAsked(g, pos, g2) ==
    /\ g2.tiles = g.tiles
    /\ g2.selected = IF InGrid(pos) THEN pos ELSE g.selected

\* C6: set_selected with a negative component, x >= width or y >= height
\* leaves selected and every tile unchanged; in range it sets selected to
\* exactly (x, y); no out-of-range target is clamped to the edge.  Stated
\* of the target of the last Move and of every position offered to the
\* current state.
C6_MoveBounds ==
    /\ (cmd.op = "set_selected" /\ InGrid(cmd.pos)) => selected = cmd.pos
    /\ \A pos \in Positions :
          MovedAsAsked(Self, pos, set_selected(Self, pos))

\* A step off the right edge was refused with the cursor on the last
\* column of a board some of whose tiles are already Visible.
C6_Witness ==
    /\ cmd.op = "set_selected"
    /\ cmd.pos = <<width, selected[2]>>
    /\ selected[1] = width - 1
    /\ width >= 2
    /\ \E i \in DOMAIN tiles : tiles[i].tile_visibility = "Visible"

\* C7: toggle_mark turns the selected tile Hidden -> Marked or
\* Marked -> Hidden, leaves a Visible selected tile as it is, and changes
\* no other tile.
C7_ToggleMarkTransitions ==
    [][cmd'.op = "toggle_mark" =>
         LET v == tiles[SelIndex].tile_visibility
         IN /\ tiles'[SelIndex] =
                  [tiles[SelIndex] EXCEPT !.tile_visibility =
                      CASE v = "Hidden" -> "Marked"
                        [] v = "Marked" -> "Hidden"
                        [] v = "Visible" -> "Visible"]
            /\ SameOutside({SelIndex})]_vars

\* toggle_mark was applied to a Visible tile.
C7_Witness ==
    /\ cmd.op = "toggle_mark"
    /\ tiles[SelIndex].tile_visibility = "Visible"
    /\ \E i \in DOMAIN tiles : tiles[i].tile_visibility = "Hidden"

\* C8: toggle_mark applied again right after a toggle_mark step restores
\* the state before that step: every tile and the selection.
C8_ToggleTwiceRestores ==
    [][cmd'.op = "toggle_mark" =>
         LET again == toggle_mark(Self').self
         IN /\ again.tiles = tiles
            /\ again.selected = selected
            /\ again.width = width
            /\ again.height = height]_vars

\* A Hidden tile was just Marked by toggle_mark, beside a Visible tile.
C8_Witness ==
    /\ cmd.op = "toggle_mark"
    /\ tiles[SelIndex].tile_visibility = "Marked"
    /\ \E i \in DOMAIN tiles : tiles[i].tile_visibility = "Visible"

\* ------------------------------------------- claims on Tile::neighbors
Corner(t) == t.x \in {0, width - 1} /\ t.y \in {0, height - 1}

Border(t) == t.x \in {0, width - 1} \/ t.y \in {0, height - 1}

\* C9 as stated: 8 neighbours for an interior tile, 5 for an edge tile
\* that is no corner, 3 for a corner, on a grid of any positive size, and
\* 0 on the 1x1 grid.
C9_Original ==
    cmd.op = "neighbors" =>
        Len(ret.neighbors) =
            IF width = 1 /\ height = 1 THEN 0
            ELSE IF Corner(ret.tile) THEN 3
            ELSE IF Border(ret.tile) THEN 5
            ELSE 8

\* C9 amended: the counts 8, 5 and 3 hold when width >= 2 and height >= 2;
\* a grid one tile wide or high gives 1 neighbour to each end tile and 2
\* to every other tile, and the 1x1 grid gives 0.
C9_NeighborCounts ==
    cmd.op = "neighbors" =>
        Len(ret.neighbors) =
            IF width = 1 /\ height = 1 THEN 0
            ELSE IF width = 1 \/ height = 1
                 THEN (IF Corner(ret.tile) THEN 1 ELSE 2)
            ELSE IF Corner(ret.tile) THEN 3
            ELSE IF Border(ret.tile) THEN 5
            ELSE 8

\* neighbors returned 8 coordinates for an interior tile.
C9_Witness ==
    /\ cmd.op = "neighbors"
    /\ ~ Border(ret.tile)
    /\ Len(ret.neighbors) = 8

\* C10: the coordinates returned for tile (x, y) are exactly the in-grid
\* positions (x+dx, y+dy) with dx, dy in -1..1 and (dx, dy) # (0, 0), each
\* once, and never (x, y) itself.
C10_NeighborSet ==
    cmd.op = "neighbors" =>
        LET x == ret.tile.x
            y == ret.tile.y
            got == {ret.neighbors[k] : k \in 1..Len(ret.neighbors)}
        IN /\ got = {p \in ((x - 1)..(x + 1)) \X ((y - 1)..(y + 1)) :
                       p # <<x, y>> /\ InGrid(p)}
           /\ Cardinality(got) = Len(ret.neighbors)
           /\ <<x, y>> \notin got

\* neighbors was evaluated on a tile of the last row and first column
\* of a grid at least two tiles wide and high.
C10_Witness ==
    /\ cmd.op = "neighbors"
    /\ width >= 2 /\ height >= 3
    /\ ret.tile.x = 0 /\ ret.tile.y = height - 1
    /\ Len(ret.neighbors) = 3

\* ------------------------------------------- claims on win and loss
\* C11 as stated: after every toggle_mark and every click_tile, whatever
\* the selected tile, a state with no Hidden Safe tile means the command
\* emitted the win signal.
C11_Original ==
    [][(cmd'.op \in {"toggle_mark", "click_tile"} /\ NoHiddenSafe(tiles'))
       => Emitted(out', WonMsg)]_vars

\* C11 amended: the same for every toggle_mark and for every click_tile
\* whose selected tile is not Marked; click_tile on a Marked tile returns
\* before the win condition is evaluated.
C11_WinCheckedAfterCommand ==
    [][(/\ cmd'.op \in {"toggle_mark", "click_tile"}
        /\ ~ (cmd'.op = "click_tile"
              /\ tiles[SelIndex].tile_visibility = "Marked")
        /\ NoHiddenSafe(tiles'))
       => Emitted(out', WonMsg)]_vars

\* toggle_mark on a Visible tile, after the last Safe tile was revealed,
\* emitted the win signal again.
C11_Witness ==
    /\ cmd.op = "toggle_mark"
    /\ tiles[SelIndex].tile_visibility = "Visible"
    /\ Emitted(out, WonMsg)
    /\ \E i \in DOMAIN tiles : tiles[i].tile_type = "Mine"

\* C12: over any sequence of commands on one board a loss signal and a
\* win signal are never both emitted, neither by one command nor by
\* different ones.
C12_OneTerminalEvent == ~ (LostMsg \in printed /\ WonMsg \in printed)

\* Visibility changes a single command may make to a tile.
Allowed(v, w) ==
    \/ w = v
    \/ v = "Hidden" /\ w = "Marked"
    \/ v = "Marked" /\ w = "Hidden"
    \/ v = "Hidden" /\ w = "Visible"

\* C13: across any command each tile keeps its visibility or goes
\* Hidden -> Marked, Marked -> Hidden or Hidden -> Visible; so a Visible
\* tile stays Visible and a Marked tile is never revealed while Marked.
C13_VisibilityTransitions ==
    [][\A i \in DOMAIN tiles :
         Allowed(tiles[i].tile_visibility, tiles'[i].tile_visibility)]_vars

\* A flood from the selected tile passed a Marked Safe neighbour by.
C13_Witness ==
    /\ cmd.op = "click_tile"
    /\ tiles[SelIndex].tile_visibility = "Visible"
    /\ tiles[SelIndex].mine_count = 0
    /\ tiles[SelIndex].tile_type = "Safe"
    /\ \E m \in Around(SelIndex) :
          tiles[m].tile_visibility = "Marked" /\ tiles[m].tile_type = "Safe"
    /\ \E j \in Around(SelIndex) : tiles[j].tile_visibility = "Visible"

\* C14: Game::new with width = 0 or height = 0 fails at creation, so no
\* command ever indexes outside the tile list of a Game it returned.
C14_ZeroSizeRejected ==
    (width = 0 \/ height = 0) => status # "panicked"

\* C15: in every reachable state of a board with width, height >= 1 the
\* cursor is inside the grid, so the index toggle_mark and click_tile
\* compute from it is an index of the tile list and no command panics;
\* and every coordinate Tile::neighbors yields for any tile, from which
\* Game::new and flood_reveal compute their indices, is inside the grid
\* and gives an index of the tile list.
C15_IndicesInBounds ==
    /\ status = "running"
    /\ DOMAIN tiles = 0..(width * height - 1)
    /\ selected[1] >= 0 /\ selected[1] < width
    /\ selected[2] >= 0 /\ selected[2] < height
    /\ selected[1] + selected[2] * width \in DOMAIN tiles
    /\ \A i \in DOMAIN tiles :
          LET nbs == neighbors(tiles[i], width, height)
          IN \A k \in 1..Len(nbs) :
                /\ nbs[k][1] >= 0 /\ nbs[k][1] < width
                /\ nbs[k][2] >= 0 /\ nbs[k][2] < height
                /\ nbs[k][1] + nbs[k][2] * width \in DOMAIN tiles

\* A click on the last tile of a board at least two tiles wide and high
\* flooded back to tile 0.
C15_Witness ==
    /\ cmd.op = "click_tile"
    /\ width >= 2 /\ height >= 2
    /\ selected = <<width - 1, height - 1>>
    /\ tiles[0].tile_visibility = "Visible"
    /\ tiles[SelIndex].tile_visibility = "Visible"

\* ------------------------------------------------ claims on the flood
NumHiddenSafe(ts) == Cardinality({i \in DOMAIN ts : HiddenSafe(ts, i)})

\* C16: a click_tile command from any reachable state terminates, with at
\* most 1 + (number of Hidden Safe tiles before it) calls of flood_reveal;
\* the first call is on the selected tile, every later call enters a tile
\* that is Hidden when entered, and no tile is entered twice.
C16_FloodCallsBounded ==
    LET calls == click_tile(Self).self.calls
    IN /\ Len(calls) <= 1 + NumHiddenSafe(tiles)
       /\ Len(calls) >= 1 => calls[1].index = SelIndex
       /\ \A k \in 2..Len(calls) : calls[k].was = "Hidden"
       /\ \A j, k \in 1..Len(calls) :
             calls[j].index = calls[k].index => j = k

\* The cursor was moved back onto a Visible tile whose neighbour had been
\* unmarked: the next click makes one call for the selected tile and one
\* for each Hidden Safe tile, at least four in all.
C16_Witness ==
    /\ cmd.op = "set_selected"
    /\ tiles[SelIndex].tile_visibility = "Visible"
    /\ Len(click_tile(Self).self.calls) >= 4
    /\ Len(click_tile(Self).self.calls) = 1 + NumHiddenSafe(tiles)

\* C17: no command changes width, height, the number of tiles or any
\* tile's x, y, kind or mine_count; the tile at index x + y*width has
\* coordinates (x, y); set_selected changes no tile; click_tile and
\* toggle_mark do not change selected.
C17_FrameUnchanged ==
    [][/\ width' = width /\ height' = height
       /\ DOMAIN tiles' = DOMAIN tiles
       /\ Cardinality(DOMAIN tiles') = width * height
       /\ \A i \in DOMAIN tiles :
             /\ tiles'[i].x = tiles[i].x /\ tiles'[i].y = tiles[i].y
             /\ tiles'[i].tile_type = tiles[i].tile_type
             /\ tiles'[i].mine_count = tiles[i].mine_count
             /\ tiles[i].x + tiles[i].y * width = i
             /\ tiles[i].x \in 0..(width - 1)
             /\ tiles[i].y \in 0..(height - 1)
       /\ cmd'.op = "set_selected" => tiles' = tiles
       /\ cmd'.op \in {"click_tile", "toggle_mark"} => selected' = selected
      ]_vars

\* A click away from tile 0 flooded at least three tiles of a board with
\* a mine.
C17_Witness ==
    /\ cmd.op = "click_tile"
    /\ selected # <<0, 0>>
    /\ \E i \in DOMAIN tiles : tiles[i].tile_type = "Mine"
    /\ Cardinality({i \in DOMAIN tiles :
                      tiles[i].tile_visibility = "Visible"}) >= 3

VisibleMines(ts) ==
    {i \in DOMAIN ts :
        ts[i].tile_type = "Mine" /\ ts[i].tile_visibility = "Visible"}

NumLost(o) == Cardinality({k \in 1..Len(o) : o[k] = LostMsg})

\* C18: a Mine becomes Visible only as the selected tile of a click_tile
\* command that emits the loss signal; each command adds at most as many
\* Visible Mines as loss signals it emits, so the Visible Mines never
\* outnumber the loss signals emitted so far; and while no loss signal
\* has been emitted no Mine is Visible.
C18_MinesRevealedOnlyByLoss ==
    [][/\ \A i \in VisibleMines(tiles') \ VisibleMines(tiles) :
             /\ cmd'.op = "click_tile"
             /\ i = SelIndex
             /\ Emitted(out', LostMsg)
       /\ Cardinality(VisibleMines(tiles')) <=
             Cardinality(VisibleMines(tiles)) + NumLost(out')
       /\ LostMsg \notin printed' => VisibleMines(tiles') = {}
       /\ LostMsg \notin printed => VisibleMines(tiles) = {}]_vars

\* A flood ran next to a Hidden Mine before any loss, and left it Hidden.
C18_Witness ==
    /\ cmd.op = "click_tile"
    /\ LostMsg \notin printed
    /\ \E i \in DOMAIN tiles :
          /\ tiles[i].tile_type = "Mine"
          /\ tiles[i].tile_visibility = "Hidden"
          /\ \E j \in Around(i) :
                /\ tiles[j].tile_visibility = "Visible"
                /\ \E z \in Around(j) :
                      /\ tiles[z].tile_visibility = "Visible"
                      /\ tiles[z].mine_count = 0

\* C19: click_tile applied again right after a click_tile leaves every
\* tile as the first one left it: from every reachable state, and in
\* particular in the state a Click step has just produced.
C19_ClickIdempotent ==
    LET once == click_tile(Self).self
        twice == click_tile([once EXCEPT !.calls = <<>>]).self
    IN /\ twice.tiles = once.tiles
       /\ cmd.op = "click_tile" => once.tiles = tiles

\* A click flooded from a zero-count tile with a Marked Safe neighbour;
\* the second click meets that neighbour again.
C19_Witness ==
    /\ cmd.op = "click_tile"
    /\ tiles[SelIndex].tile_type = "Safe"
    /\ tiles[SelIndex].mine_count = 0
    /\ \E m \in Around(SelIndex) : tiles[m].tile_visibility = "Marked"
    /\ Cardinality({i \in DOMAIN tiles :
                      tiles[i].tile_visibility = "Visible"}) >= 3

\* Every neighbour of a Visible Safe tile with mine_count 0 is Visible or
\* Marked.
Closed(ts) ==
    \A i \in DOMAIN ts :
        (/\ ts[i].tile_visibility = "Visible"
         /\ ts[i].tile_type = "Safe"
         /\ ts[i].mine_count = 0)
        => \A j \in Around(i) :
              ts[j].tile_visibility \in {"Visible", "Marked"}

\* C20 as stated: the revealed region is closed in every reachable state.
C20_Original == Closed(tiles)

\* C20 amended: the revealed region is closed at creation and stays
\* closed across every command except a toggle_mark that turns a Marked
\* tile back to Hidden; so it is closed in every state reached without
\* unmarking a tile.
C20_ClosedUnlessUnmarked ==
    [][(/\ Closed(tiles)
        /\ ~ (cmd'.op = "toggle_mark"
              /\ tiles[SelIndex].tile_visibility = "Marked"))
       => Closed(tiles')]_vars

\* After a click the region is closed only thanks to a Marked neighbour
\* of a Visible zero-count tile.
C20_Witness ==
    /\ cmd.op = "click_tile"
    /\ Closed(tiles)
    /\ \E i \in DOMAIN tiles :
          /\ tiles[i].tile_visibility = "Visible"
          /\ tiles[i].tile_type = "Safe"
          /\ tiles[i].mine_count = 0
          /\ \E j \in Around(i) : tiles[j].tile_visibility = "Marked"
    /\ \E h \in DOMAIN tiles : HiddenSafe(tiles, h)

====
